---- MODULE Spec2Model ----
(***************************************************************************)
(* Ingestion pipeline of gffutils (create.py): id synthesis, collision     *)
(* resolution, first-order relations and the second pass of the GFF and    *)
(* GTF drivers, over a store with the tables features, relations, meta and *)
(* autoincrements.                                                         *)
(***************************************************************************)
EXTENDS Integers, Sequences, FiniteSets, TLC

VARIABLES
    merge_strategy,   \* self.merge_strategy
    verbose,          \* self.verbose
    force,            \* create_db's force
    dest,             \* what was at dbfn when create_db was called
    out,              \* GFFWriter.out_stream: the ids of the records written
    wpc,              \* where write_gene_recs stands
    sorted_mRNAs,     \* write_gene_recs: the part of sorted_mRNAs not yet written
    files,            \* the scratch files of pass 2 that are on disk
    peers,            \* two GTF creators that run pass 2 at the same time
    tmp_gffutils,     \* the lines of the file '/tmp/gffutils' they both use
    sniff,            \* create_db's first DataIterator and what the creator reads
    driver,           \* "gff" (_GFFDBCreator) or "gtf" (_GTFDBCreator)
    id_spec,          \* self.id_spec
    features,         \* table features, rows in insertion order
    relations,        \* table relations: set of <<parent, child, level>>
    autoincrements,   \* self._autoincrements (in memory)
    autoinc_table,    \* table autoincrements (written by _finalize)
    meta,             \* number of rows of table meta
    pc,               \* position inside create() / update()
    mode,             \* "create" or "update": which call is running
    current_item_number, \* self.iterator.current_item_number
    nread,            \* records read over the store's lifetime
    nupdates,         \* update() calls made
    error,            \* the exception that ended the call, if any
    warnings,         \* ids reported through logger.warning
    scratch,          \* derived records written to the pass-2 scratch file
    history,          \* per record read: what it resolved to and what happened
    issued,           \* the (key, id) pairs _increment_featuretype_autoid has returned
    snapshot          \* features, relations and counters as they were when update()
                      \* was called

\* the arguments of create_db, fixed for the life of the creator
settings == <<merge_strategy, verbose, force, dest, driver, id_spec>>

\* the state of the GFFWriter that reads the finished store
writer == <<out, wpc, sorted_mRNAs>>

\* what lives outside the creator
\* creators of other stores on the same machine
parallel == <<peers, tmp_gffutils>>

collaborators == <<writer, files, parallel, sniff>>

vars == <<settings, collaborators, features, relations, autoincrements,
          autoinc_table, meta, pc, mode, current_item_number, nread, nupdates,
          error, warnings, scratch, history, issued, snapshot>>

-----------------------------------------------------------------------------
(* Bounds *)

MaxRecords == 3
MaxUpdates == 1

-----------------------------------------------------------------------------
(* Values *)

\* Python's None where a text is expected
None == "<None>"

Strategies == {"error", "warning", "merge", "replace", "create_unique"}

\* constants._gffkeys[:-1]: the fields _do_merge compares
gffkeys_but_attributes ==
    <<"seqid", "source", "featuretype", "start", "end", "score", "strand", "frame">>

Range(s) == {s[i] : i \in 1..Len(s)}

\* every duplicate-free listing of a finite set: the orders list(set(...)) can give
SetOrders(S) ==
    {s \in [1..Cardinality(S) -> S] : \A i, j \in 1..Cardinality(S) : s[i] = s[j] => i = j}

NoError == [type |-> "none", slots |-> [none |-> None]]

\* A feature as read from a line, before its id is set
Feature(featuretype, start, end, strand, attributes) ==
    [id |-> None, seqid |-> "chr1", source |-> "src", featuretype |-> featuretype,
     start |-> start, end |-> end, score |-> ".", strand |-> strand, frame |-> ".",
     attributes |-> attributes, extra |-> <<>>]

\* attributes is a defaultdict(list): a missing key reads as the empty list
AttrGet(attributes, k) == IF k \in DOMAIN attributes THEN attributes[k] ELSE <<>>

AttrDel(attributes, k) == [x \in DOMAIN attributes \ {k} |-> attributes[x]]

-----------------------------------------------------------------------------
(* Counters *)

Counter(ai, key) == IF key \in DOMAIN ai THEN ai[key] ELSE 0

\* self._autoincrements[key] += 1
Bump(ai, key) == [x \in DOMAIN ai \cup {key} |-> IF x = key THEN Counter(ai, key) + 1 ELSE ai[x]]

\* a slip: the id is formatted before the increment
_increment_featuretype_autoid_stale(ai, key) ==
    [id |-> key \o "_" \o ToString(Counter(ai, key)), ai |-> Bump(ai, key)]

\* '%s_%s' % (key, self._autoincrements[key]) after the increment
_increment_featuretype_autoid(ai, key) ==
    [id |-> key \o "_" \o ToString(Counter(ai, key) + 1), ai |-> Bump(ai, key)]

\* what a call that took the counters from `before` to `after` and returned
\* `id` has issued: nothing when no counter moved, else the key and the id
Issued(before, after, id) ==
    IF before = after THEN <<>>
    ELSE <<[key |-> CHOOSE k \in DOMAIN after : Counter(before, k) # after[k], id |-> id]>>

-----------------------------------------------------------------------------
(* _DBCreator._id_handler *)

\* The callables the model hands over as id_spec: a record to None, a text or
\* 'autoincrement:<key>'
CallIdSpec(fn, f) ==
    CASE fn = "name_or_None" ->
            IF Len(AttrGet(f.attributes, "Name")) > 0 THEN f.attributes["Name"][1] ELSE None
      [] fn = "name_or_empty" ->
            IF Len(AttrGet(f.attributes, "Name")) > 0 THEN f.attributes["Name"][1] ELSE ""
      [] fn = "autoincrement_seqid" -> "autoincrement:" \o f.seqid

\* `if _id:` -- None and the empty text are false
Truthy(v) == v # None /\ v # ""

\* _id.startswith('autoincrement:') and _id[14:], over the texts the callables return
AutoincrementKeys == ("autoincrement:chr1" :> "chr1") @@ ("autoincrement:chr2" :> "chr2")

startswith_autoincrement(v) == v \in DOMAIN AutoincrementKeys

\* (len(k) > 3) and (k[0] == ':') and (k[-1] == ':'), and k[1:-1], over the
\* candidate keys of the model
FieldKeys == (":seqid:" :> "seqid") @@ (":strand:" :> "strand") @@
             (":source:" :> "source") @@ (":featuretype:" :> "featuretype")

is_field_key(k) == k \in DOMAIN FieldKeys

\* a slip for v[0]: v[-1]
FirstValue_last(v) == v[Len(v)]

\* v[0]
FirstValue(v) == v[1]

\* what _id_handler hands back: the id, or the exception it raised; the feature
\* (whose attributes it may have changed) and the counters
IdResult(raised, id, f, ai) == [raised |-> raised, id |-> id, f |-> f, ai |-> ai]

IdAutoincrement(f, ai, key) ==
    LET r == _increment_featuretype_autoid(ai, key) IN IdResult("none", r.id, f, r.ai)

\* lines 99-104, then line 108 with a callable k: len(k) raises TypeError
TryCallable(fn, f, ai) ==
    LET _id == CallIdSpec(fn, f) IN
    IF Truthy(_id)
    THEN IF startswith_autoincrement(_id)
         THEN IdAutoincrement(f, ai, AutoincrementKeys[_id])
         ELSE IdResult("none", _id, f, ai)
    ELSE IdResult("TypeError", None, f, ai)

\* the loop of lines 97-120 over text candidates, from candidate i on
RECURSIVE TryKeys(_, _, _, _)
TryKeys(id_key, i, f, ai) ==
    IF i > Len(id_key)
    THEN IdAutoincrement(f, ai, f.featuretype)
    ELSE LET k == id_key[i] IN
         IF is_field_key(k)
         THEN IdResult("none", f[FieldKeys[k]], f, ai)
         ELSE LET v == AttrGet(f.attributes, k) IN
              IF Len(v) = 0
              THEN TryKeys(id_key, i + 1, [f EXCEPT !.attributes = AttrDel(@, k)], ai)
              ELSE IdResult("none", FirstValue(v), f, ai)

_id_handler(f, spec, ai) ==
    CASE spec.kind = "str"  -> TryKeys(<<spec.key>>, 1, f, ai)
      [] spec.kind = "call" -> TryCallable(spec.fn, f, ai)
      [] spec.kind = "dict" ->
            IF f.featuretype \in DOMAIN spec.map
            THEN TryKeys(spec.map[f.featuretype], 1, f, ai)
            ELSE IdAutoincrement(f, ai, f.featuretype)
      [] spec.kind = "seq"  -> TryKeys(spec.keys, 1, f, ai)

StrSpec(key) == [kind |-> "str", key |-> key]
SeqSpec(keys) == [kind |-> "seq", keys |-> keys]
DictSpec(map) == [kind |-> "dict", map |-> map]
CallSpec(fn) == [kind |-> "call", fn |-> fn]

\* create_db: id_spec or 'ID' / id_spec or {'gene': 'gene_id', 'transcript': 'transcript_id'}
DefaultIdSpec(d) ==
    IF d = "gff" THEN StrSpec("ID")
    ELSE DictSpec(("gene" :> <<"gene_id">>) @@ ("transcript" :> <<"transcript_id">>))


-----------------------------------------------------------------------------
(* The features table and _DBCreator._do_merge *)

Min(S) == CHOOSE x \in S : \A y \in S : x <= y

Ids(feats) == {feats[i].id : i \in 1..Len(feats)}

\* a features table without its primary key: no INSERT is refused
IntegrityError_never(feats, f) == FALSE

\* c.execute(constants._INSERT, f.astuple()) raises sqlite3.IntegrityError:
\* id is the primary key of features
IntegrityError(feats, f) == f.id \in Ids(feats)

\* SELECT ... WHERE id = ? ... fetchone()
_get_feature(feats, ID) == feats[Min({i \in 1..Len(feats) : feats[i].id = ID})]

\* a slip: the merged feature is inserted as a new row instead of updating the
\* stored one
UpdateAttributes_insert(feats, attributes, ID) ==
    IF \A i \in 1..Len(feats) : feats[i].id # ID THEN feats
    ELSE Append(feats, [feats[Min({i \in 1..Len(feats) : feats[i].id = ID})]
                           EXCEPT !.attributes = attributes])

\* UPDATE features SET attributes = ? WHERE id = ?
UpdateAttributes(feats, attributes, ID) ==
    [i \in 1..Len(feats) |->
        IF feats[i].id = ID THEN [feats[i] EXCEPT !.attributes = attributes] ELSE feats[i]]

\* the positions of constants._gffkeys[:-1] at which the two features differ
Mismatches(existing_feature, f) ==
    {i \in 1..Len(gffkeys_but_attributes) :
        existing_feature[gffkeys_but_attributes[i]] # f[gffkeys_but_attributes[i]]}

\* a slip for the union: the intersection of the two sets
MergeValues_intersection(old, v) == SetOrders(Range(old) \cap Range(v))

\* a slip for the union: list(set(v)), which drops the stored values
MergeValues_new_only(old, v) == SetOrders(Range(v))

\* list(set(attributes[k]).union(v)): the listing order of a set is not fixed
MergeValues(old, v) == SetOrders(Range(old) \cup Range(v))

\* for k, v in f.attributes.items(): attributes[k] = list(set(attributes[k]).union(v))
MergeAttributes(attributes, new) ==
    LET D == DOMAIN attributes \cup DOMAIN new
        Choice(k) == IF k \in DOMAIN new
                     THEN MergeValues(AttrGet(attributes, k), new[k])
                     ELSE {attributes[k]}
    IN {m \in [D -> UNION {Choice(k) : k \in D}] : \A k \in D : m[k] \in Choice(k)}

\* a slip in the message: it formats the feature type, not the id
ValueErrorDuplicate_featuretype(f) == [type |-> "ValueError", slots |-> [id |-> f.featuretype]]

\* raise ValueError("Duplicate ID {0.id}".format(f))
ValueErrorDuplicate(f) == [type |-> "ValueError", slots |-> [id |-> f.id]]

\* the assert message: "... differing info for %s field. Line %s: \n%s" %
\* (f.id, current_item_number, current_item)
AssertionErrorDiffering(f, line) ==
    [type |-> "AssertionError", slots |-> [field |-> f.id, line |-> line, item |-> f]]

\* what _do_merge does: raises, or returns None (isnone), or returns `fixed`;
\* f is the new record (create_unique changes its id), ai the counters
MergeResult(raised, isnone, fixed, f, ai, warned) ==
    [raised |-> raised, isnone |-> isnone, fixed |-> fixed, f |-> f, ai |-> ai,
     warned |-> warned]

_do_merge(f, feats, ai, strategy, line) ==
    CASE strategy = "error" ->
            {MergeResult(ValueErrorDuplicate(f), FALSE, f, f, ai, FALSE)}
      [] strategy = "warning" ->
            {MergeResult(NoError, TRUE, f, f, ai, TRUE)}
      [] strategy = "replace" ->
            {MergeResult(NoError, FALSE, f, f, ai, FALSE)}
      [] strategy = "merge" ->
            LET existing_feature == _get_feature(feats, f.id) IN
            IF Mismatches(existing_feature, f) # {}
            THEN {MergeResult(AssertionErrorDiffering(f, line), FALSE, f, f, ai, FALSE)}
            ELSE {MergeResult(NoError, FALSE, [existing_feature EXCEPT !.attributes = m],
                              f, ai, FALSE) :
                      m \in MergeAttributes(existing_feature.attributes, f.attributes)}
      [] strategy = "create_unique" ->
            LET r == _increment_featuretype_autoid(ai, f.id)
                g == [f EXCEPT !.id = r.id]
            IN {MergeResult(NoError, FALSE, g, g, r.ai, FALSE)}

\* The try/except around the INSERT (lines 321-334 and 455-468): the table, the
\* counters, the exception that escaped, the record as it ended and what happened
InsertResult(feats, ai, raised, warned, f, outcome) ==
    [features |-> feats, ai |-> ai, raised |-> raised, warned |-> warned, f |-> f,
     outcome |-> outcome]

AfterMerge(m, feats, strategy) ==
    IF m.raised.type # "none"
    THEN InsertResult(feats, m.ai, m.raised, FALSE, m.f, "raised")
    ELSE IF strategy \in {"merge", "replace"}
    THEN InsertResult(UpdateAttributes(feats, m.fixed.attributes, m.fixed.id), m.ai,
                      NoError, FALSE, m.f, strategy)
    ELSE IF strategy = "create_unique"
    THEN IF IntegrityError(feats, m.f)
         THEN InsertResult(feats, m.ai, [type |-> "IntegrityError", slots |-> [id |-> m.f.id]],
                           FALSE, m.f, "raised")
         ELSE InsertResult(Append(feats, m.f), m.ai, NoError, FALSE, m.f, "create_unique")
    ELSE InsertResult(feats, m.ai, NoError, m.warned, m.f, "skipped")

InsertFeature(f, feats, ai, strategy, line) ==
    IF ~IntegrityError(feats, f)
    THEN {InsertResult(Append(feats, f), ai, NoError, FALSE, f, "inserted")}
    ELSE {AfterMerge(m, feats, strategy) : m \in _do_merge(f, feats, ai, strategy, line)}


-----------------------------------------------------------------------------
(* Input records *)

Attrs(keys, vals) == [k \in {keys[i] : i \in {j \in 1..Len(keys) : vals[j] # <<>>}} |->
                         vals[Min({i \in 1..Len(keys) : keys[i] = k})]]

\* the data lines a GFF3 input is made of: records with the id a, in two starts
\* and with no, one or two parents, a record that names one parent twice
\* (Parent=a,a), and records whose id has the form a_<n>, with and without a
\* parent (a and a_1 can name each other as parent)
GFFRecords ==
    {Feature("gene", start, 3, "+", Attrs(<<"ID", "Parent">>, <<<<"a">>, Parent>>)) :
        start \in {1, 2},
        Parent \in {<<>>, <<"a">>, <<"a_1", "a">>}}
    \cup {Feature("gene", 1, 3, "+", Attrs(<<"ID", "Parent">>, <<<<"a">>, <<"a", "a">>>>))}
    \cup {Feature("gene", 1, 3, "+", Attrs(<<"ID", "Parent">>, <<<<"a">>, <<"a_1">>>>))}
    \cup {Feature("gene", 1, 3, "+", Attrs(<<"ID", "Parent">>, <<<<"a_1">>, Parent>>)) :
             Parent \in {<<>>, <<"a">>}}

\* the data lines a GTF input is made of: exons and explicit transcript records
\* of one transcript, with and without gene_id
GTFRecords ==
    {Feature("exon", start, start + 1, "+",
             Attrs(<<"transcript_id", "gene_id">>, <<<<"T1">>, gene_id>>)) :
        start \in {1, 2},
        gene_id \in {<<>>, <<"G1">>}}
    \cup {Feature("transcript", 1, 3, "+",
                  Attrs(<<"transcript_id", "gene_id">>, <<<<"T1">>, gene_id>>)) :
             gene_id \in {<<>>, <<"G1">>}}

-----------------------------------------------------------------------------
(* Pass 1 *)

\* a slip: only the first value of Parent gives an edge
GFFFirstOrder_first_parent(f) ==
    IF AttrGet(f.attributes, "Parent") = <<>> THEN {}
    ELSE {<<f.attributes["Parent"][1], f.id, 1>>}

\* lines 337-343: one level-1 row per value of Parent
GFFFirstOrder(f) ==
    {<<parent, f.id, 1>> : parent \in Range(AttrGet(f.attributes, "Parent"))}

\* _GTFDBCreator: transcript_key, gene_key, subfeature (create_db's defaults)
transcript_key == "transcript_id"
gene_key == "gene_id"
subfeature == "exon"

\* a slip: the (gene, transcript, 1) row is left out
GTFFirstOrder_no_gene_transcript(f) ==
    (IF transcript_key \in DOMAIN f.attributes
     THEN {<<f.attributes[transcript_key][1], f.id, 1>>} ELSE {})
    \cup (IF gene_key \in DOMAIN f.attributes /\ Len(f.attributes[gene_key]) > 0
          THEN {<<f.attributes[gene_key][1], f.id, 2>>} ELSE {})

\* lines 473-486
GTFFirstOrder(f) ==
    LET hasT == transcript_key \in DOMAIN f.attributes
        hasG == gene_key \in DOMAIN f.attributes /\ Len(f.attributes[gene_key]) > 0
        parent == f.attributes[transcript_key][1]
        grandparent == f.attributes[gene_key][1]
    IN (IF hasT THEN {<<parent, f.id, 1>>} ELSE {})
       \cup (IF hasG THEN {<<grandparent, f.id, 2>>} ELSE {})
       \cup (IF hasG /\ hasT THEN {<<grandparent, parent, 1>>} ELSE {})

FirstOrder(f, d) == IF d = "gff" THEN GFFFirstOrder(f) ELSE GTFFirstOrder(f)

HistoryEntry(line, f, res) ==
    [line |-> line, resolved |-> f.id, record |-> f,
     stored |-> IF res.outcome \in {"inserted", "create_unique"} THEN res.f.id ELSE None,
     outcome |-> res.outcome]

Raise(e) ==
    /\ error' = e
    /\ pc' = "failed"

\* One turn of the loop `for i, f in enumerate(lines)` on the record f0
populate_record(f0, d) ==
    /\ nread' = nread + 1
    /\ current_item_number' = current_item_number + 1
    /\ LET h == _id_handler(f0, id_spec, autoincrements) IN
       IF h.raised # "none"
       THEN /\ Raise([type |-> h.raised, slots |-> [none |-> None]])
            /\ autoincrements' = h.ai
            /\ issued' = issued \o Issued(autoincrements, h.ai, h.id)
            /\ history' = Append(history,
                  [line |-> current_item_number', resolved |-> None, record |-> h.f,
                   stored |-> None, outcome |-> "raised"])
            /\ UNCHANGED <<features, relations, warnings>>
       ELSE LET f == [h.f EXCEPT !.id = h.id] IN
            \E res \in InsertFeature(f, features, h.ai, merge_strategy, current_item_number') :
               /\ features' = res.features
               /\ autoincrements' = res.ai
               /\ issued' = issued \o Issued(autoincrements, h.ai, h.id)
                                   \o Issued(h.ai, res.ai, res.f.id)
               /\ history' = Append(history, HistoryEntry(current_item_number', f, res))
               /\ warnings' = IF res.warned THEN Append(warnings, f.id) ELSE warnings
               /\ IF res.raised.type # "none"
                  THEN /\ Raise(res.raised)
                       /\ UNCHANGED relations
                  ELSE /\ relations' = relations \cup FirstOrder(res.f, d)
                       /\ UNCHANGED <<error, pc>>
    /\ UNCHANGED <<settings, collaborators, autoinc_table, meta, mode, nupdates,
                   scratch, snapshot>>

\* _GFFDBCreator._populate_from_lines, one record
GFF_populate_from_lines(f0) ==
    /\ pc = "pass1"
    /\ driver = "gff"
    /\ nread < MaxRecords
    /\ populate_record(f0, "gff")

\* _GTFDBCreator._populate_from_lines, one record
GTF_populate_from_lines(f0) ==
    /\ pc = "pass1"
    /\ driver = "gtf"
    /\ nread < MaxRecords
    /\ populate_record(f0, "gtf")

\* The iterator is exhausted: self.conn.commit() ends pass 1. The GTF driver
\* then writes `msg % i` when verbose, and i is the loop variable: it is
\* unbound when the loop body never ran
populate_commit ==
    /\ pc = "pass1"
    /\ IF driver = "gtf" /\ verbose /\ current_item_number = 0
       THEN Raise([type |-> "UnboundLocalError", slots |-> [none |-> None]])
       ELSE pc' = "pass2" /\ UNCHANGED error
    /\ UNCHANGED <<settings, collaborators, features, relations,
                   autoincrements, autoinc_table, meta, mode, current_item_number, nread,
                   nupdates, warnings, scratch, history, issued, snapshot>>


-----------------------------------------------------------------------------
(* Pass 2 *)

AfterPass2 == IF mode = "create" THEN "finalize" ELSE "done"

\* a slip: the query finds no grandchild
Grandchildren_none(rel, parent) == {}

\* SELECT child FROM relations WHERE parent IN
\*   (SELECT child FROM relations WHERE parent = ?)
Grandchildren(rel, parent) ==
    {e2[2] : e2 \in {e \in rel : \E e1 \in rel : e1[1] = parent /\ e[1] = e1[2]}}

\* _GFFDBCreator._update_relations: the (parent, grandchild) pairs go through the
\* scratch file and come back as level-2 rows, INSERT OR IGNORE
GFF_update_relations ==
    /\ pc = "pass2"
    /\ driver = "gff"
    /\ relations' = relations \cup
          UNION {{<<parent, grandchild, 2>> : grandchild \in Grandchildren(relations, parent)} :
                    parent \in Ids(features)}
    /\ pc' = AfterPass2
    /\ UNCHANGED <<settings, collaborators, features, autoincrements,
                   autoinc_table, meta, mode, current_item_number, nread, nupdates, error,
                   warnings, scratch, history, issued, snapshot>>

\* ORDER BY relations.parent: the texts that can be a parent, in collation order
Collation == <<"G1", "G2", "T1", "T2">>

Rank(x) == Min({i \in 1..Len(Collation) : Collation[i] = x})

\* lines 539-553: the (transcript, gene) rows, in any order ORDER BY gene allows
firstlevel(feats, rel) ==
    {e[1] : e \in {r \in rel : r[3] = 1 /\ \E i \in 1..Len(feats) :
                                   feats[i].id = r[2] /\ feats[i].featuretype = subfeature}}

TranscriptGenePairs(feats, rel) ==
    {<<e[2], e[1]>> : e \in {r \in rel : r[3] = 1 /\ r[2] \in firstlevel(feats, rel)}}

PairOrders(feats, rel) ==
    {s \in SetOrders(TranscriptGenePairs(feats, rel)) :
        \A i, j \in 1..Len(s) : i < j => Rank(s[i][2]) <= Rank(s[j][2])}

\* the rows of features JOIN relations ON features.id = relations.child
\* WHERE parent = ? AND featuretype == ?
SubfeatureRows(feats, rel, parent) ==
    {i \in 1..Len(feats) : feats[i].featuretype = subfeature
                           /\ \E r \in rel : r[1] = parent /\ r[2] = feats[i].id}

\* SELECT MIN(start), MAX(end), strand, seqid: the bare columns come from a row
\* of the group that the contract does not fix
Extents(feats, rows) ==
    {[start |-> Min({feats[i].start : i \in rows}),
      end |-> -Min({-feats[i].end : i \in rows}),
      strand |-> feats[r].strand, seqid |-> feats[r].seqid] : r \in rows}

\* a slip: d['source'] is not set and the feature keeps the default source
Derived_source_unset(ID, featuretype, ext, attributes) ==
    [id |-> None, seqid |-> ext.seqid, source |-> ".",
     featuretype |-> featuretype, start |-> ext.start, end |-> ext.end, score |-> ".",
     strand |-> ext.strand, frame |-> ".", attributes |-> attributes, extra |-> <<>>]

\* a line of the scratch file, as derived_feature_generator reads it back
Derived(ID, featuretype, ext, attributes) ==
    [id |-> None, seqid |-> ext.seqid, source |-> "gffutils_derived",
     featuretype |-> featuretype, start |-> ext.start, end |-> ext.end, score |-> ".",
     strand |-> ext.strand, frame |-> ".", attributes |-> attributes, extra |-> <<>>]

\* The lines written for the rows pairs[i..]: per row a transcript, and a gene
\* when gene_id differs from last_gene_id. A gene without subfeature rows has
\* MIN(start) = NULL: the set is empty and the caller raises.
RECURSIVE DerivedLines(_, _, _, _, _)
DerivedLines(pairs, i, last_gene_id, feats, rel) ==
    IF i > Len(pairs) THEN {<<>>}
    ELSE LET transcript_id == pairs[i][1]
             gene_id == pairs[i][2]
             trows == SubfeatureRows(feats, rel, transcript_id)
             grows == SubfeatureRows(feats, rel, gene_id)
             tattrs == (transcript_key :> <<transcript_id>>) @@ (gene_key :> <<gene_id>>)
             gattrs == (gene_key :> <<gene_id>>)
             tlines == {<<Derived(transcript_id, "transcript", e, tattrs)>> :
                           e \in Extents(feats, trows)}
             glines == IF gene_id = last_gene_id THEN {<<>>}
                       ELSE {<<Derived(gene_id, "gene", e, gattrs)>> :
                                e \in Extents(feats, grows)}
         IN {t \o g \o rest : t \in tlines, g \in glines,
                              rest \in DerivedLines(pairs, i + 1, gene_id, feats, rel)}

\* tempfile.NamedTemporaryFile(delete=False).name: a new file, named by the call
\* that made it
NamedTemporaryFile(n) == "/tmp/tmp" \o ToString(n)

\* _GTFDBCreator._update_relations up to fout.close(): the file of
\* NamedTemporaryFile is made and its name dropped for '/tmp/gffutils', which is
\* opened for writing; then query and write
GTF_update_relations_write ==
    /\ pc = "pass2"
    /\ driver = "gtf"
    /\ files' = files \cup {NamedTemporaryFile(nupdates), "/tmp/gffutils"}
    /\ \E pairs \in PairOrders(features, relations) :
          LET lines == DerivedLines(pairs, 1, None, features, relations) IN
          IF lines = {}
          THEN /\ Raise([type |-> "TypeError", slots |-> [none |-> None]])
               /\ UNCHANGED scratch
          ELSE /\ \E l \in lines : scratch' = l
               /\ pc' = "pass2_insert"
               /\ UNCHANGED error
    /\ UNCHANGED <<settings, sniff, parallel, writer, features, relations, autoincrements,
                   autoinc_table, meta, mode, current_item_number, nread, nupdates,
                   warnings, history, issued, snapshot>>

\* lines 643-653: on IntegrityError, _do_merge with self.merge_strategy and then
\* always the UPDATE of fixed.id with fixed.attributes
InsertDerived(f, feats, ai, strategy, line) ==
    IF ~IntegrityError(feats, f)
    THEN {InsertResult(Append(feats, f), ai, NoError, FALSE, f, "inserted")}
    ELSE {IF m.raised.type # "none"
          THEN InsertResult(feats, m.ai, m.raised, FALSE, m.f, "raised")
          ELSE IF m.isnone
          THEN InsertResult(feats, m.ai, [type |-> "AttributeError", slots |-> [none |-> None]],
                            m.warned, m.f, "raised")
          ELSE InsertResult(UpdateAttributes(feats, m.fixed.attributes, m.fixed.id), m.ai,
                            NoError, FALSE, m.f, strategy) :
             m \in _do_merge(f, feats, ai, strategy, line)}

\* One turn of `for f in derived_feature_generator()`
GTF_update_relations_insert ==
    /\ pc = "pass2_insert"
    /\ scratch # <<>>
    /\ scratch' = Tail(scratch)
    /\ LET h == _id_handler(Head(scratch), id_spec, autoincrements) IN
       IF h.raised # "none"
       THEN /\ Raise([type |-> h.raised, slots |-> [none |-> None]])
            /\ autoincrements' = h.ai
            /\ issued' = issued \o Issued(autoincrements, h.ai, h.id)
            /\ UNCHANGED <<features, warnings>>
       ELSE LET f == [h.f EXCEPT !.id = h.id] IN
            \E res \in InsertDerived(f, features, h.ai, merge_strategy, current_item_number) :
               /\ features' = res.features
               /\ autoincrements' = res.ai
               /\ issued' = issued \o Issued(autoincrements, h.ai, h.id)
                                   \o Issued(h.ai, res.ai, res.f.id)
               /\ warnings' = IF res.warned THEN Append(warnings, f.id) ELSE warnings
               /\ IF res.raised.type # "none"
                  THEN Raise(res.raised)
                  ELSE UNCHANGED <<error, pc>>
    /\ UNCHANGED <<settings, collaborators, relations, autoinc_table, meta, mode,
                   current_item_number, nread, nupdates, history, snapshot>>

\* self.conn.commit(); os.unlink(fout.name)
GTF_update_relations_commit ==
    /\ pc = "pass2_insert"
    /\ scratch = <<>>
    /\ pc' = AfterPass2
    /\ files' = files \ {"/tmp/gffutils"}
    /\ UNCHANGED <<settings, sniff, parallel, writer, features, relations, autoincrements,
                   autoinc_table, meta, mode, current_item_number, nread, nupdates, error,
                   warnings, scratch, history, issued, snapshot>>

-----------------------------------------------------------------------------
(* create() and update() *)

\* _DBCreator._finalize: the meta row and INSERT OR REPLACE INTO autoincrements
_finalize ==
    /\ pc = "finalize"
    /\ meta' = meta + 1
    /\ autoinc_table' = [k \in DOMAIN autoinc_table \cup DOMAIN autoincrements |->
                            IF k \in DOMAIN autoincrements THEN autoincrements[k]
                            ELSE autoinc_table[k]]
    /\ pc' = "done"
    /\ UNCHANGED <<settings, collaborators, features, relations, autoincrements,
                   mode, current_item_number, nread, nupdates, error, warnings, scratch,
                   history, issued, snapshot>>

\* _DBCreator.update(iterator) on a store that create() has built
update ==
    /\ pc = "done"
    /\ nupdates < MaxUpdates
    /\ nupdates' = nupdates + 1
    /\ mode' = "update"
    /\ current_item_number' = 0
    /\ pc' = "pass1"
    /\ snapshot' = [features |-> features, relations |-> relations,
                    autoincrements |-> autoincrements]
    /\ UNCHANGED <<settings, collaborators, features, relations, autoincrements,
                   autoinc_table, meta, nread, error, warnings, scratch, history, issued>>

\* no writer has been made, no scratch file is on disk
NoWriter ==
    /\ out = <<>>
    /\ wpc = "idle"
    /\ sorted_mRNAs = <<>>
    /\ files = {}

Missing == "<missing>"

\* no other creator runs; the input is in the creator's iterator
NoPeers ==
    /\ peers = <<>>
    /\ tmp_gffutils = Missing
    /\ sniff = [pc |-> "idle"]

\* the creator and its empty store
InitCreator ==
    /\ features = <<>>
    /\ relations = {}
    /\ autoincrements = [k \in {} |-> 0]
    /\ autoinc_table = [k \in {} |-> 0]
    /\ meta = 0
    /\ pc = "pass1"
    /\ mode = "create"
    /\ current_item_number = 0
    /\ nread = 0
    /\ nupdates = 0
    /\ error = NoError
    /\ warnings = <<>>
    /\ scratch = <<>>
    /\ history = <<>>
    /\ issued = <<>>
    /\ snapshot = [features |-> <<>>, relations |-> {},
                   autoincrements |-> [k \in {} |-> 0]]

\* The state after _DBCreator.__init__ and _init_tables
InitStore ==
    /\ NoWriter
    /\ NoPeers
    /\ InitCreator

\* create_db with either dialect, any merge_strategy, the default id_spec and
\* the default verbose=True
Init ==
    /\ merge_strategy \in Strategies
    /\ verbose = TRUE
    /\ force = FALSE
    /\ dest = "absent"
    /\ driver \in {"gff", "gtf"}
    /\ id_spec = DefaultIdSpec(driver)
    /\ InitStore

Next ==
    \/ \E f0 \in GFFRecords : GFF_populate_from_lines(f0)
    \/ \E f0 \in GTFRecords : GTF_populate_from_lines(f0)
    \/ populate_commit
    \/ GFF_update_relations
    \/ GTF_update_relations_write
    \/ GTF_update_relations_insert
    \/ GTF_update_relations_commit
    \/ _finalize
    \/ update

Spec == Init /\ [][Next]_vars

\* create_db with verbose=True or verbose=False
InitVerbose ==
    /\ merge_strategy \in Strategies
    /\ verbose \in BOOLEAN
    /\ force = FALSE
    /\ dest = "absent"
    /\ driver \in {"gff", "gtf"}
    /\ id_spec = DefaultIdSpec(driver)
    /\ InitStore

SpecVerbose == InitVerbose /\ [][Next]_vars


-----------------------------------------------------------------------------
(* create_db on a destination path that may already exist *)

\* what can be at dbfn: nothing, a file without tables (a zero-byte file is an
\* empty database to sqlite3.connect), or a store an earlier create_db built
Destinations == {"absent", "empty", "store"}

\* the one feature of the store found at dbfn
PriorFeatures ==
    <<[Feature("gene", 1, 3, "+", Attrs(<<"ID">>, <<<<"old">>>>)) EXCEPT !.id = "old"]>>

\* lines 35-37: `if force: if os.path.exists(dbfn): os.unlink(dbfn)`
Unlinked(f, d) == f /\ d # "absent"

\* _DBCreator.__init__: nothing is checked and nothing raised when force is
\* off; sqlite3.connect(dbfn) opens whatever is there
__init__ ==
    /\ pc = "init"
    /\ IF Unlinked(force, dest)
       THEN /\ features' = <<>>
            /\ meta' = 0
       ELSE UNCHANGED <<features, meta>>
    /\ pc' = "tables"
    /\ UNCHANGED <<settings, collaborators, relations, autoincrements, autoinc_table, mode,
                   current_item_number, nread, nupdates, error, warnings, scratch,
                   history, issued, snapshot>>

\* CREATE TABLE in constants.SCHEMA fails when the table is there
SchemaFails(f, d) == d = "store" /\ ~Unlinked(f, d)

\* _DBCreator._init_tables: c.executescript(constants.SCHEMA)
_init_tables ==
    /\ pc = "tables"
    /\ IF SchemaFails(force, dest)
       THEN Raise([type |-> "OperationalError", slots |-> [none |-> None]])
       ELSE pc' = "pass1" /\ UNCHANGED error
    /\ UNCHANGED <<settings, collaborators, features, relations, autoincrements, autoinc_table, meta,
                   mode, current_item_number, nread, nupdates, warnings, scratch,
                   history, issued, snapshot>>

\* create_db(data, dbfn, force=...) is called with dbfn absent or present
InitForce ==
    /\ merge_strategy = "error"
    /\ verbose = TRUE
    /\ force \in BOOLEAN
    /\ dest \in Destinations
    /\ NoWriter
    /\ NoPeers
    /\ driver \in {"gff", "gtf"}
    /\ id_spec = DefaultIdSpec(driver)
    /\ features = IF dest = "store" THEN PriorFeatures ELSE <<>>
    /\ relations = {}
    /\ autoincrements = [k \in {} |-> 0]
    /\ autoinc_table = [k \in {} |-> 0]
    /\ meta = IF dest = "store" THEN 1 ELSE 0
    /\ pc = "init"
    /\ mode = "create"
    /\ current_item_number = 0
    /\ nread = 0
    /\ nupdates = 0
    /\ error = NoError
    /\ warnings = <<>>
    /\ scratch = <<>>
    /\ history = <<>>
    /\ issued = <<>>
    /\ snapshot = [features |-> features, relations |-> {},
                   autoincrements |-> [k \in {} |-> 0]]

NextForce ==
    \/ __init__
    \/ _init_tables
    \/ Next

SpecForce == InitForce /\ [][NextForce]_vars

-----------------------------------------------------------------------------
(* GFFWriter.write_gene_recs on a finished store *)

\* a stored GFF3 feature
Row(id, featuretype, start, end, Parent) ==
    [Feature(featuretype, start, end, "+", Attrs(<<"ID", "Parent">>, <<<<id>>, Parent>>))
        EXCEPT !.id = id]

gene_id == "g"

\* the rows of a store besides the gene
MaxRows == 5

\* the lines a gene's file can hold besides the gene: two mRNAs, exons of one
\* or both of them (e3 short or long), a CDS, a child of exon e1 and a non-mRNA
\* child of the gene
OptionalRows ==
    <<Row("m1", "mRNA", 1, 9, <<"g">>), Row("m2", "mRNA", 1, 9, <<"g">>),
      Row("e1", "exon", 1, 2, <<"m1">>),
      Row("e2", "exon", 4, 4, <<"m1">>), Row("e2", "exon", 4, 4, <<"m1", "m2">>),
      Row("e3", "exon", 3, 3, <<"m2">>), Row("e3", "exon", 3, 8, <<"m2">>),
      Row("c1", "CDS", 1, 2, <<"m1">>),
      Row("x1", "stop", 2, 2, <<"e1">>),
      Row("p1", "promoter", 1, 1, <<"g">>)>>

\* the lines numbered in picked, in file order
RECURSIVE Picked(_, _)
Picked(picked, i) ==
    IF i > Len(OptionalRows) THEN <<>>
    ELSE (IF i \in picked THEN <<OptionalRows[i]>> ELSE <<>>) \o Picked(picked, i + 1)

\* the stores create_db builds from a gene and some of these lines: one row per
\* id, level-1 rows from Parent and the level-2 rows of pass 2
WriterStores ==
    {<<Row("g", "gene", 1, 9, <<>>)>> \o Picked(picked, 1) :
        picked \in {I \in SUBSET (1..Len(OptionalRows)) :
                       /\ Cardinality(I) <= MaxRows
                       /\ \A i, j \in I : OptionalRows[i].id = OptionalRows[j].id => i = j}}

StoreRelations(feats) ==
    LET level1 == UNION {GFFFirstOrder(feats[i]) : i \in 1..Len(feats)}
    IN level1 \cup UNION {{<<parent, grandchild, 2>> :
                              grandchild \in Grandchildren(level1, parent)} :
                          parent \in Ids(feats)}

\* db[id]
Get(feats, id) == feats[CHOOSE i \in 1..Len(feats) : feats[i].id = id]

\* db.children(id, level=None, featuretype=None): the features that are a child
\* of id at the level asked for (level=None: at any level), of the type asked
\* for
AnyLevel == {1, 2}

children(feats, rel, id, level, featuretype) ==
    {c \in Ids(feats) :
        /\ \E r \in rel : r[1] = id /\ r[2] = c /\ r[3] \in level
        /\ featuretype = None \/ Get(feats, c).featuretype = featuretype}

\* len(feature)
FeatureLen(f) == f.end - f.start + 1

\* mRNA_lens[mRNA.id] = sum(len(exon) for exon in db.children(mRNA, featuretype="exon"))
RECURSIVE SumLen(_, _)
SumLen(feats, exons) ==
    IF exons = {} THEN 0
    ELSE LET e == CHOOSE e \in exons : TRUE
         IN FeatureLen(Get(feats, e)) + SumLen(feats, exons \ {e})

mRNA_lens(feats, rel, mRNA) == SumLen(feats, children(feats, rel, mRNA, AnyLevel, "exon"))

\* sorted(items, key=...) without reverse=True: shortest first
Sorted_ascending(S, key, reverse) ==
    {s \in SetOrders(S) : \A i, j \in 1..Len(s) : i < j => key[s[i]] <= key[s[j]]}

\* sorted(items, key=..., reverse=...) of a dict's items: the order among equal
\* keys is the dict's
Sorted(S, key, reverse) ==
    {s \in SetOrders(S) :
        \A i, j \in 1..Len(s) : i < j => IF reverse THEN key[s[i]] >= key[s[j]]
                                         ELSE key[s[i]] <= key[s[j]]}

\* write_exon_children: the exon's children in the order db.children gives
write_exon_children(feats, rel, exon_id) ==
    SetOrders(children(feats, rel, exon_id, AnyLevel, None))

\* the loop over sorted_exons: each exon and then its children
RECURSIVE write_exons(_, _, _)
write_exons(feats, rel, sorted_exons) ==
    IF sorted_exons = <<>> THEN {<<>>}
    ELSE {<<Head(sorted_exons)>> \o kids \o rest :
             kids \in write_exon_children(feats, rel, Head(sorted_exons)),
             rest \in write_exons(feats, rel, Tail(sorted_exons))}

\* write_mRNA_children: what it can write for mRNA_id
write_mRNA_children(feats, rel, mRNA_id) ==
    LET mRNA_children == children(feats, rel, mRNA_id, AnyLevel, None)
        exon_starts == {c \in mRNA_children : Get(feats, c).featuretype = "exon"}
        nonexonic_children == mRNA_children \ exon_starts
        Start == [e \in exon_starts |-> Get(feats, e).start]
    IN {exons \o tail : exons \in UNION {write_exons(feats, rel, sorted_exons) :
                                            sorted_exons \in Sorted(exon_starts, Start, FALSE)},
                        tail \in SetOrders(nonexonic_children)}

\* write_gene_recs up to the loop: the gene record, mRNA_lens, sorted_mRNAs
write_gene_recs ==
    /\ wpc = "start"
    /\ out' = <<gene_id>>
    /\ LET mRNAs == children(features, relations, gene_id, AnyLevel, "mRNA")
           Lens == [m \in mRNAs |-> mRNA_lens(features, relations, m)]
       IN \E s \in Sorted(mRNAs, Lens, TRUE) : sorted_mRNAs' = s
    /\ wpc' = "mRNAs"
    /\ UNCHANGED <<settings, sniff, parallel, files, features, relations, autoincrements, autoinc_table, meta,
                   pc, mode, current_item_number, nread, nupdates, error, warnings,
                   scratch, history, issued, snapshot>>

\* one turn of `for curr_mRNA in sorted_mRNAs`
write_gene_recs_mRNA ==
    /\ wpc = "mRNAs"
    /\ sorted_mRNAs # <<>>
    /\ \E recs \in write_mRNA_children(features, relations, Head(sorted_mRNAs)) :
          out' = out \o <<Head(sorted_mRNAs)>> \o recs
    /\ sorted_mRNAs' = Tail(sorted_mRNAs)
    /\ UNCHANGED <<settings, sniff, parallel, files, wpc, features, relations, autoincrements, autoinc_table,
                   meta, pc, mode, current_item_number, nread, nupdates, error, warnings,
                   scratch, history, issued, snapshot>>

\* the last loop: the gene's level-1 children that are not mRNAs
write_gene_recs_rest ==
    /\ wpc = "mRNAs"
    /\ sorted_mRNAs = <<>>
    /\ \E rest \in SetOrders({c \in children(features, relations, gene_id, {1}, None) :
                                 Get(features, c).featuretype # "mRNA"}) :
          out' = out \o rest
    /\ wpc' = "written"
    /\ UNCHANGED <<settings, sniff, parallel, files, sorted_mRNAs, features, relations, autoincrements,
                   autoinc_table, meta, pc, mode, current_item_number, nread, nupdates,
                   error, warnings, scratch, history, issued, snapshot>>

\* a GFFWriter and the store a finished create_db of a gene's lines has built
InitWriter ==
    /\ merge_strategy = "error"
    /\ verbose = TRUE
    /\ force = FALSE
    /\ dest = "absent"
    /\ driver = "gff"
    /\ id_spec = DefaultIdSpec(driver)
    /\ out = <<>>
    /\ wpc = "start"
    /\ sorted_mRNAs = <<>>
    /\ files = {}
    /\ NoPeers
    /\ features \in WriterStores
    /\ relations = StoreRelations(features)
    /\ autoincrements = [k \in {} |-> 0]
    /\ autoinc_table = [k \in {} |-> 0]
    /\ meta = 1
    /\ pc = "done"
    /\ mode = "create"
    /\ current_item_number = Len(features)
    /\ nread = Len(features)
    /\ nupdates = 0
    /\ error = NoError
    /\ warnings = <<>>
    /\ scratch = <<>>
    /\ history = <<>>
    /\ issued = <<>>
    /\ snapshot = [features |-> <<>>, relations |-> {},
                   autoincrements |-> [k \in {} |-> 0]]

NextWriter ==
    \/ write_gene_recs
    \/ write_gene_recs_mRNA
    \/ write_gene_recs_rest

SpecWriter == InitWriter /\ [][NextWriter]_vars

-----------------------------------------------------------------------------
(* GTF input whose exons disagree on strand and seqid *)

\* exons of transcript T1 of gene G1, on either strand and on another sequence
StrandRecords ==
    {[Feature("exon", start, start + 1, strand,
              Attrs(<<"transcript_id", "gene_id">>, <<<<"T1">>, <<"G1">>>>))
         EXCEPT !.seqid = seqid] :
        start \in {1, 2}, strand \in {"+", "-"}, seqid \in {"chr1"}}
    \cup {[Feature("exon", 1, 2, "+",
                   Attrs(<<"transcript_id", "gene_id">>, <<<<"T1">>, <<"G1">>>>))
             EXCEPT !.seqid = "chr2"]}

InitStrand ==
    /\ merge_strategy = "error"
    /\ verbose = TRUE
    /\ force = FALSE
    /\ dest = "absent"
    /\ driver = "gtf"
    /\ id_spec = DefaultIdSpec(driver)
    /\ InitStore

NextStrand ==
    \/ \E f0 \in StrandRecords : GTF_populate_from_lines(f0)
    \/ populate_commit
    \/ GTF_update_relations_write
    \/ GTF_update_relations_insert
    \/ GTF_update_relations_commit
    \/ _finalize
    \/ update

SpecStrand == InitStrand /\ [][NextStrand]_vars

-----------------------------------------------------------------------------
(* Two GTF creators, of different stores, in pass 2 at the same time *)

ExonRow(id, start, T, G) ==
    [Feature("exon", start, start + 1, "+",
             Attrs(<<"transcript_id", "gene_id">>, <<<<T>>, <<G>>>>)) EXCEPT !.id = id]

\* features and relations as pass 1 leaves them
AfterPass1(feats) ==
    [features |-> feats,
     relations |-> UNION {GTFFirstOrder(feats[i]) : i \in 1..Len(feats)}]

\* the stores a creator can have when it enters pass 2: one exon of T1, one
\* exon of T2, or one of each
PeerStores ==
    {AfterPass1(<<ExonRow("exon_1", 1, "T1", "G1")>>),
     AfterPass1(<<ExonRow("exon_1", 2, "T2", "G2")>>),
     AfterPass1(<<ExonRow("exon_1", 1, "T1", "G1"), ExonRow("exon_2", 2, "T2", "G1")>>)}

Peers == {1, 2}

\* the creator of the model's own store, which the two leave alone
creator == <<features, relations, autoincrements, autoinc_table, meta, pc, mode,
             current_item_number, nread, nupdates, error, warnings, scratch, history,
             issued, snapshot>>

\* fout.close() flushes the lines written, from offset 0 of the file as it is
\* now; a file unlinked since it was opened has lost its name
Flushed(content, lines) ==
    IF content = Missing THEN Missing
    ELSE lines \o SubSeq(content, Len(lines) + 1, Len(content))

\* `for f in derived_feature_generator()`: _id_handler and the insert of each
\* line, until one raises
RECURSIVE Replay(_, _, _)
Replay(lines, feats, strategy) ==
    IF lines = <<>> THEN [features |-> feats, raised |-> NoError]
    ELSE LET ai == [k \in {} |-> 0]
             h == _id_handler(Head(lines), DefaultIdSpec("gtf"), ai)
             f == [h.f EXCEPT !.id = h.id]
             res == CHOOSE r \in InsertDerived(f, feats, ai, strategy, 0) : TRUE
         IN IF res.raised.type # "none" THEN [features |-> res.features, raised |-> res.raised]
            ELSE Replay(Tail(lines), res.features, strategy)

\* line 510: fout = open('/tmp/gffutils', 'w') makes the file or empties it
peer_open(c) ==
    /\ peers[c].pc = "pass2"
    /\ tmp_gffutils' = <<>>
    /\ peers' = [peers EXCEPT ![c].pc = "open"]
    /\ UNCHANGED <<settings, sniff, writer, files, creator>>

\* lines 539-619: the queries, fout.write per derived record, fout.close()
peer_close(c) ==
    /\ peers[c].pc = "open"
    /\ \E pairs \in PairOrders(peers[c].features, peers[c].relations) :
          \E lines \in DerivedLines(pairs, 1, None, peers[c].features, peers[c].relations) :
             /\ tmp_gffutils' = Flushed(tmp_gffutils, lines)
             /\ peers' = [peers EXCEPT ![c].pc = "closed", ![c].own = lines]
    /\ UNCHANGED <<settings, sniff, writer, files, creator>>

\* lines 621-653: open(fout.name) and the replay of what the file holds now
peer_replay(c) ==
    /\ peers[c].pc = "closed"
    /\ UNCHANGED <<settings, sniff, writer, files, creator, tmp_gffutils>>
    /\ IF tmp_gffutils = Missing
       THEN peers' = [peers EXCEPT ![c].pc = "failed", ![c].error = "IOError"]
       ELSE LET r == Replay(tmp_gffutils, peers[c].features, merge_strategy)
            IN peers' = [peers EXCEPT
                            ![c].pc = IF r.raised.type = "none" THEN "replayed" ELSE "failed",
                            ![c].error = r.raised.type,
                            ![c].replayed = tmp_gffutils,
                            ![c].features = r.features]

\* lines 655-656: self.conn.commit(); os.unlink(fout.name)
peer_unlink(c) ==
    /\ peers[c].pc = "replayed"
    /\ IF tmp_gffutils = Missing
       THEN /\ peers' = [peers EXCEPT ![c].pc = "failed", ![c].error = "OSError"]
            /\ UNCHANGED tmp_gffutils
       ELSE /\ peers' = [peers EXCEPT ![c].pc = "done"]
            /\ tmp_gffutils' = Missing
    /\ UNCHANGED <<settings, sniff, writer, files, creator>>

\* two create_db calls on GTF input, each at the start of its pass 2
InitPeers ==
    /\ merge_strategy = "error"
    /\ verbose = TRUE
    /\ force = FALSE
    /\ dest = "absent"
    /\ driver = "gtf"
    /\ id_spec = DefaultIdSpec(driver)
    /\ NoWriter
    /\ InitCreator
    /\ tmp_gffutils = Missing
    /\ sniff = [pc |-> "idle"]
    /\ peers \in [Peers -> {[pc |-> "pass2", features |-> store.features,
                              relations |-> store.relations, own |-> <<>>,
                              replayed |-> <<>>, error |-> "none"] : store \in PeerStores}]

NextPeers ==
    \/ \E c \in Peers : peer_open(c)
    \/ \E c \in Peers : peer_close(c)
    \/ \E c \in Peers : peer_replay(c)
    \/ \E c \in Peers : peer_unlink(c)

SpecPeers == InitPeers /\ [][NextPeers]_vars

-----------------------------------------------------------------------------
(* create_db: the dialect is sniffed before the creator reads the input *)

\* the most data lines an input has
MaxLines == 3

\* inputs of one to MaxLines data lines, each in GFF3 or GTF form; line i is
\* told from the others by its number
Inputs ==
    UNION {{[i \in 1..n |-> [line |-> i, fmt |-> fmts[i]]] : fmts \in [1..n -> {"gff3", "gtf"}]} :
              n \in 1..MaxLines}

\* iterators.peek(it, n): the first n items of it, or all it has
peek(it, n) == SubSeq(it, 1, IF n < Len(it) THEN n ELSE Len(it))

\* what peek has left in it
after_peek(it, n) == SubSeq(it, (IF n < Len(it) THEN n ELSE Len(it)) + 1, Len(it))

\* the dialect elected from the peeked lines; ties go to gff3
Elected(peeked) ==
    IF Cardinality({i \in 1..Len(peeked) : peeked[i].fmt = "gtf"})
          > Cardinality({i \in 1..Len(peeked) : peeked[i].fmt = "gff3"})
    THEN "gtf" ELSE "gff3"

\* lines 797-798: iterator = iterators.DataIterator(**kwargs); dialect =
\* iterator.dialect. The constructor takes checklines items out of data and
\* keeps them
create_db_sniff ==
    /\ sniff.pc = "start"
    /\ sniff' = [sniff EXCEPT !.pc = "sniffed",
                              !.peeked = peek(sniff.data, sniff.checklines),
                              !.dialect = Elected(peek(sniff.data, sniff.checklines)),
                              !.data = IF sniff.oneshot THEN after_peek(sniff.data, sniff.checklines)
                                       ELSE sniff.data,
                              !._iter = after_peek(sniff.data, sniff.checklines)]
    /\ UNCHANGED <<settings, writer, files, parallel, creator>>

\* a slip: the creator is handed data itself, which the sniffing has read from
create_db_data_again(data, peeked, _iter) == data

\* line 805: kwargs['data'] = iterator._iter, the peeked items chained back
\* onto the beginning of what is left
create_db_data(data, peeked, _iter) == peeked \o _iter

\* lines 808-826 and _DBCreator.__init__ 53-57: checklines = 0, the creator
\* class by dialect, and the creator's own DataIterator over the new data
create_db_creator ==
    /\ sniff.pc = "sniffed"
    /\ LET data == create_db_data(sniff.data, sniff.peeked, sniff._iter)
           checklines == 0
       IN sniff' = [sniff EXCEPT !.pc = "create",
                                 !.cls = IF sniff.force_gff \/ sniff.dialect = "gff3"
                                         THEN "_GFFDBCreator" ELSE "_GTFDBCreator",
                                 !.lines = peek(data, checklines) \o after_peek(data, checklines)]
    /\ UNCHANGED <<settings, writer, files, parallel, creator>>

\* one turn of `for i, f in enumerate(lines)` in _populate_from_lines
create_db_ingest ==
    /\ sniff.pc = "create"
    /\ sniff.lines # <<>>
    /\ sniff' = [sniff EXCEPT !.lines = Tail(sniff.lines),
                              !.ingested = Append(sniff.ingested, Head(sniff.lines))]
    /\ UNCHANGED <<settings, writer, files, parallel, creator>>

\* the loop ends: the iterator is exhausted
create_db_exhausted ==
    /\ sniff.pc = "create"
    /\ sniff.lines = <<>>
    /\ sniff' = [sniff EXCEPT !.pc = "read"]
    /\ UNCHANGED <<settings, writer, files, parallel, creator>>

\* create_db(data, dbfn, checklines=...) is called; data is a list or a
\* generator
InitSniff ==
    /\ merge_strategy = "error"
    /\ verbose = TRUE
    /\ force = FALSE
    /\ dest = "absent"
    /\ driver = "gff"
    /\ id_spec = DefaultIdSpec(driver)
    /\ NoWriter
    /\ peers = <<>>
    /\ tmp_gffutils = Missing
    /\ InitCreator
    /\ sniff \in {[pc |-> "start", input |-> input, data |-> input, oneshot |-> oneshot,
                   checklines |-> checklines, force_gff |-> force_gff, peeked |-> <<>>,
                   dialect |-> None, _iter |-> <<>>, cls |-> None, lines |-> <<>>,
                   ingested |-> <<>>] :
                     input \in Inputs, oneshot \in BOOLEAN, checklines \in 1..MaxLines,
                     force_gff \in BOOLEAN}

NextSniff ==
    \/ create_db_sniff
    \/ create_db_creator
    \/ create_db_ingest
    \/ create_db_exhausted

SpecSniff == InitSniff /\ [][NextSniff]_vars

-----------------------------------------------------------------------------
(* GFF3 input with explicit ids, in any order of its lines *)

\* a gene, its transcript and the transcript's exon, the exon with one parent
\* or with two
ChainRecords ==
    {Feature("gene", 1, 3, "+", Attrs(<<"ID">>, <<<<"g">>>>)),
     Feature("mRNA", 1, 3, "+", Attrs(<<"ID", "Parent">>, <<<<"t">>, <<"g">>>>)),
     Feature("exon", 1, 2, "+", Attrs(<<"ID", "Parent">>, <<<<"e">>, <<"t">>>>)),
     Feature("exon", 1, 2, "+", Attrs(<<"ID", "Parent">>, <<<<"e">>, <<"t", "g">>>>))}

InitChain ==
    /\ merge_strategy \in Strategies
    /\ verbose = TRUE
    /\ force = FALSE
    /\ dest = "absent"
    /\ driver = "gff"
    /\ id_spec = DefaultIdSpec(driver)
    /\ InitStore

NextChain ==
    \/ \E f0 \in ChainRecords : GFF_populate_from_lines(f0)
    \/ populate_commit
    \/ GFF_update_relations
    \/ _finalize
    \/ update

SpecChain == InitChain /\ [][NextChain]_vars

-----------------------------------------------------------------------------
(* Ingestion of GFF3 input under the kinds of id_spec *)

\* GFF3 data lines with and without ID and Name, with an empty ID value
IdRecords ==
    {Feature(featuretype, 1, 3, "+", Attrs(<<"ID", "Name">>, <<ID, Name>>)) :
        featuretype \in {"gene", "exon"},
        ID \in {<<>>, <<"">>, <<"a">>},
        Name \in {<<>>, <<"n1", "n2">>}}

IdSpecs ==
    {StrSpec("ID"), SeqSpec(<<"ID", "Name">>), SeqSpec(<<"ID", ":seqid:">>),
     DictSpec("gene" :> <<"Name", "ID">>),
     CallSpec("name_or_None"), CallSpec("name_or_empty"), CallSpec("autoincrement_seqid")}

\* create_db on GFF3 data with an id_spec of any kind; merge_strategy='error'
\* is create_db's default
InitIdSpec ==
    /\ merge_strategy = "error"
    /\ verbose = TRUE
    /\ force = FALSE
    /\ dest = "absent"
    /\ driver = "gff"
    /\ id_spec \in IdSpecs
    /\ InitStore

NextIdSpec ==
    \/ \E f0 \in IdRecords : GFF_populate_from_lines(f0)
    \/ populate_commit
    \/ GFF_update_relations
    \/ _finalize
    \/ update

SpecIdSpec == InitIdSpec /\ [][NextIdSpec]_vars

-----------------------------------------------------------------------------
(* Properties *)

\* a pass-1 turn: a record was read in this step
ReadsRecord == nread' = nread + 1

\* the record read in this step, with the id _id_handler gave it
NewRecord == history'[Len(history')].record

\* the record read in this step has the id of a stored row
Collides == ReadsRecord /\ NewRecord.id \in Ids(features)

StoredBefore == _get_feature(features, NewRecord.id)

StoredAfter == _get_feature(features', NewRecord.id)

\* C1: after any sequence of insertions, under every merge_strategy and in both
\* drivers, no id appears in more than one row of features.
C1_IdUnique ==
    \A i, j \in 1..Len(features) : features[i].id = features[j].id => i = j

\* C1 witness: an update has run to its end on a store of several rows after a
\* record collided with a stored id and ingestion went on.
C1_Witness ==
    /\ pc = "done"
    /\ mode = "update"
    /\ Len(features) >= 2
    /\ \E i \in 1..Len(history) :
          history[i].outcome \in {"merge", "replace", "skipped", "create_unique"}

NoDuplicates(s) == \A i, j \in 1..Len(s) : s[i] = s[j] => i = j

\* old followed by the values of new that are not yet in the list
RECURSIVE ExistingFirst(_, _)
ExistingFirst(old, new) ==
    IF new = <<>> THEN old
    ELSE ExistingFirst(IF Head(new) \in Range(old) THEN old ELSE Append(old, Head(new)),
                       Tail(new))

MergeCollision ==
    /\ merge_strategy = "merge"
    /\ Collides
    /\ Mismatches(StoredBefore, NewRecord) = {}

\* C2 as stated: under 'merge', after a collision with equal non-attribute
\* fields every key holds the stored list followed by the new record's values
\* that were not in it; a key of only one record keeps that record's list.
C2_ExistingFirstOrder ==
    [][MergeCollision =>
        /\ DOMAIN StoredAfter.attributes =
              DOMAIN StoredBefore.attributes \cup DOMAIN NewRecord.attributes
        /\ \A k \in DOMAIN StoredAfter.attributes :
              StoredAfter.attributes[k] =
                  ExistingFirst(AttrGet(StoredBefore.attributes, k),
                                AttrGet(NewRecord.attributes, k))]_vars

\* C2 amended: under 'merge', after a collision with equal non-attribute fields
\* every key of the new record holds, without repeats and in no fixed order,
\* exactly the values of the stored list and of the new list; a key of the
\* stored record alone keeps its list.
C2_MergeIsSetUnion ==
    [][MergeCollision =>
        /\ error' = error
        /\ DOMAIN StoredAfter.attributes =
              DOMAIN StoredBefore.attributes \cup DOMAIN NewRecord.attributes
        /\ \A k \in DOMAIN NewRecord.attributes :
              /\ NoDuplicates(StoredAfter.attributes[k])
              /\ Range(StoredAfter.attributes[k]) =
                    Range(AttrGet(StoredBefore.attributes, k))
                       \cup Range(NewRecord.attributes[k])
        /\ \A k \in DOMAIN StoredBefore.attributes \ DOMAIN NewRecord.attributes :
              StoredAfter.attributes[k] = StoredBefore.attributes[k]]_vars

\* C2 witness: a merge has joined a new Parent list into a stored row that now
\* holds more values than the new record brought.
C2_Witness ==
    /\ merge_strategy = "merge"
    /\ history # <<>>
    /\ LET h == history[Len(history)] IN
       /\ h.outcome = "merge"
       /\ "Parent" \in DOMAIN h.record.attributes
       /\ Len(_get_feature(features, h.resolved).attributes["Parent"])
             > Len(h.record.attributes["Parent"])

\* C3: under 'merge', a colliding record that differs in a field other than
\* attributes and extra raises a merge-conflict error that carries the name of
\* the mismatched field, the id and the line number.
C3_ConflictNamesField ==
    [][(merge_strategy = "merge" /\ Collides /\ Mismatches(StoredBefore, NewRecord) # {}) =>
        /\ pc' = "failed"
        /\ error'.type = "AssertionError"
        /\ error'.slots.field \in
              {gffkeys_but_attributes[i] : i \in Mismatches(StoredBefore, NewRecord)}
        /\ error'.slots.item.id = NewRecord.id
        /\ error'.slots.line = current_item_number']_vars

\* C4: under 'replace', after a record whose id exists has been processed every
\* field of the stored row equals the field of the new record.
C4_ReplaceOverwritesAll ==
    [][(merge_strategy = "replace" /\ Collides) => StoredAfter = NewRecord]_vars


\* the records read before record i that resolved to the same id
EarlierSame(i) == {j \in 1..(i - 1) : history[j].resolved = history[i].resolved}

SameResolved(x) == {i \in 1..Len(history) : history[i].resolved = x}

\* C5: under 'create_unique', the m >= 2 records of one input that resolve to
\* the same id x are stored in input order under x, x_1, ..., x_(m-1), and after
\* finalisation the autoincrements table holds x -> m-1.
C5_SuffixesInInputOrder ==
    (merge_strategy = "create_unique" /\ mode = "create") =>
        \A i \in 1..Len(history) :
            LET x == history[i].resolved
                n == Cardinality(EarlierSame(i))
                m == Cardinality(SameResolved(x))
            IN m >= 2 =>
                /\ history[i].stored = IF n = 0 THEN x ELSE x \o "_" \o ToString(n)
                /\ history[i].stored \in Ids(features)
                /\ pc = "done" => (x \in DOMAIN autoinc_table /\ autoinc_table[x] = m - 1)

\* C6: under 'create_unique', ingestion never aborts with a duplicate-key error
\* and no record is dropped, whatever ids the input holds.
C6_CreateUniqueNeverFails ==
    merge_strategy = "create_unique" =>
        /\ error.type # "IntegrityError"
        /\ \A i \in 1..Len(history) :
              history[i].stored # None /\ history[i].stored \in Ids(features)

ErrorCollision == merge_strategy = "error" /\ Collides

C8_WarningSkipsRecord ==
    [][(merge_strategy = "warning" /\ Collides) =>
        /\ warnings' = Append(warnings, NewRecord.id)
        /\ features' = features
        /\ relations' = relations
        /\ pc' = pc
        /\ error' = error]_vars


\* the id the feature-type counter gives the record read in this step
NextAutoId(key) == key \o "_" \o ToString(Counter(autoincrements, key) + 1)

\* C9: with a callable id_spec, None or an empty text gives the id
\* <featuretype>_<n> and ingestion continues without error; 'autoincrement:K'
\* gives K_<n>; any other text is the id.
C9_CallableIdSpec ==
    [][(id_spec.kind = "call" /\ ReadsRecord) =>
        LET f == NewRecord
            r == CallIdSpec(id_spec.fn, f)
            resolved == history'[Len(history')].resolved
        IN IF ~Truthy(r)
           THEN resolved = NextAutoId(f.featuretype) /\ pc' = "pass1" /\ error'.type = "none"
           ELSE IF startswith_autoincrement(r)
           THEN resolved = NextAutoId(AutoincrementKeys[r])
           ELSE resolved = r]_vars

\* the candidate keys of a textual, sequence or mapping id_spec for a record
Candidates(spec, f) ==
    CASE spec.kind = "str" -> <<spec.key>>
      [] spec.kind = "seq" -> spec.keys
      [] spec.kind = "dict" ->
            IF f.featuretype \in DOMAIN spec.map THEN spec.map[f.featuretype] ELSE <<>>

\* what a candidate key yields for a record: its column, or its value list
Yield(f, k) == IF is_field_key(k) THEN <<f[FieldKeys[k]]>> ELSE AttrGet(f.attributes, k)

ExpectedId(keys, f, winners) ==
    IF winners = {} THEN NextAutoId(f.featuretype) ELSE Yield(f, keys[Min(winners)])[1]

IssuedUnder(K, n) == {i \in 1..n : issued[i].key = K}

IssuedKeys == {issued[i].key : i \in 1..Len(issued)}

\* C11: every counter starts at 0 and the k-th id issued under key K is K_k;
\* the ids issued under one key are pairwise distinct; at every point the
\* counter of K is the number of ids issued under K, and this is the value the
\* autoincrements table holds after finalisation.
C11_CounterCountsIssued ==
    /\ \A i \in 1..Len(issued) :
          issued[i].id = issued[i].key \o "_" \o
                            ToString(Cardinality(IssuedUnder(issued[i].key, i)))
    /\ \A i, j \in 1..Len(issued) :
          (issued[i].key = issued[j].key /\ issued[i].id = issued[j].id) => i = j
    /\ \A K \in IssuedKeys \cup DOMAIN autoincrements :
          Counter(autoincrements, K) = Cardinality(IssuedUnder(K, Len(issued)))
    /\ (pc = "done" /\ mode = "create") =>
          /\ DOMAIN autoinc_table = IssuedKeys
          /\ \A K \in IssuedKeys :
                autoinc_table[K] = Cardinality(IssuedUnder(K, Len(issued)))

\* C11 witness: a create has been finalised after one key issued several ids.
C11_Witness ==
    /\ pc = "done"
    /\ mode = "create"
    /\ \E K \in IssuedKeys :
          /\ Cardinality(IssuedUnder(K, Len(issued))) >= 2
          /\ autoinc_table[K] = Cardinality(IssuedUnder(K, Len(issued)))

\* the record carries no id: none of its candidate keys yields a value
NoId(f) ==
    \A i \in 1..Len(Candidates(id_spec, f)) : Len(Yield(f, Candidates(id_spec, f)[i])) = 0

\* the autoincrements table as a reader loads it, against the counters in memory
PersistedEqualsMemory ==
    \A K \in DOMAIN autoinc_table \cup DOMAIN autoincrements :
        Counter(autoinc_table, K) = Counter(autoincrements, K)

\* C12: over create and update calls on one store no counter decreases; a
\* record without id read by an update raises the counter of its type by one
\* and adds one feature (so k records raise it by k and add k features); and
\* once an update has returned, the counters in the autoincrements table equal
\* the counters in memory.
C12_CountersPersistAcrossUpdates ==
    [][/\ \A K \in DOMAIN autoincrements :
             Counter(autoincrements', K) >= autoincrements[K]
       /\ (mode = "update" /\ ReadsRecord /\ NoId(NewRecord)) =>
             /\ Counter(autoincrements', NewRecord.featuretype)
                   = Counter(autoincrements, NewRecord.featuretype) + 1
             /\ Len(features') = Len(features) + 1
       /\ (mode' = "update" /\ pc' = "done") => PersistedEqualsMemory']_vars

\* one create() whose data records resolved to pairwise different ids and that
\* has raised no error
DuplicateFreeCreate ==
    /\ mode = "create"
    /\ error.type = "none"
    /\ \A i, j \in 1..Len(history) : history[i].resolved = history[j].resolved => i = j

Raw(f) == [f EXCEPT !.id = None]

\* the number of records the running (or last) call has read
RecordsOfCall == IF history = <<>> THEN 0 ELSE history[Len(history)].line

\* create() ingested some records and the first update() has ingested the same
\* records again, under 'merge', without error
SecondIngestOfSame ==
    /\ merge_strategy = "merge"
    /\ mode = "update"
    /\ nupdates = 1
    /\ pc = "done"
    /\ RecordsOfCall >= 1
    /\ Len(history) = 2 * RecordsOfCall
    /\ \A i \in 1..RecordsOfCall :
          Raw(history[RecordsOfCall + i].record) = Raw(history[i].record)

Level1(rel) == {r \in rel : r[3] = 1}

C15_MergeNeverShrinksList ==
    [][MergeCollision =>
        \A k \in DOMAIN StoredBefore.attributes :
            /\ k \in DOMAIN StoredAfter.attributes
            /\ Len(StoredAfter.attributes[k]) >= Len(StoredBefore.attributes[k])]_vars

\* C15 amended: after a 'merge' collision every attribute key of the stored
\* record still holds every value it held before, and its list is at least as
\* long as the number of different values it held; a list with repeated values
\* of a key the new record carries shrinks to its different values.
C15_MergeNeverLosesValue ==
    [][MergeCollision =>
        \A k \in DOMAIN StoredBefore.attributes :
            /\ k \in DOMAIN StoredAfter.attributes
            /\ Range(StoredBefore.attributes[k]) \subseteq Range(StoredAfter.attributes[k])
            /\ Len(StoredAfter.attributes[k])
                  >= Cardinality(Range(StoredBefore.attributes[k]))
            /\ k \in DOMAIN NewRecord.attributes =>
                  NoDuplicates(StoredAfter.attributes[k])]_vars

\* C15 witness: a record stored with Parent=a,a has been merged with a record
\* that carries Parent, and its Parent list is now shorter, without repeats.
C15_Witness ==
    /\ merge_strategy = "merge"
    /\ Len(history) >= 2
    /\ history[1].outcome = "inserted"
    /\ AttrGet(history[1].record.attributes, "Parent") = <<"a", "a">>
    /\ history[2].outcome = "merge"
    /\ "Parent" \in DOMAIN history[2].record.attributes
    /\ Len(features[1].attributes["Parent"]) < 2

\* the ids that occur in relations
RelationIds == {r[1] : r \in relations} \cup {r[2] : r \in relations}

\* some c is a level-1 child of p and a level-1 parent of g
TwoStepChain(p, g) ==
    \E c \in RelationIds : <<p, c, 1>> \in relations /\ <<c, g, 1>> \in relations

\* C16: after pass 2 of the GFF driver, for every parent p of a level-1 edge,
\* (p, g, 2) is in relations exactly when some c has (p, c, 1) and (c, g, 1) in
\* relations; no level-2 edge lacks such a c.
C16_Level2IffTwoStepChain ==
    (driver = "gff" /\ pc \in {"finalize", "done"}) =>
        /\ \A p \in {r[1] : r \in Level1(relations)} : \A g \in RelationIds :
              <<p, g, 2>> \in relations <=> TwoStepChain(p, g)
        /\ \A r \in relations : r[3] = 2 => TwoStepChain(r[1], r[2])

\* the records that went through pass 1 without raising
Processed == {i \in 1..Len(history) : history[i].outcome # "raised"}

\* the id a processed record ended with: create_unique renames it
FinalId(h) == IF h.outcome = "create_unique" THEN h.stored ELSE h.resolved

TranscriptEdge(h) ==
    IF "transcript_id" \in DOMAIN h.record.attributes
    THEN {<<h.record.attributes["transcript_id"][1], FinalId(h), 1>>} ELSE {}

GeneEdges(h) ==
    IF "gene_id" \in DOMAIN h.record.attributes
    THEN {<<h.record.attributes["gene_id"][1], FinalId(h), 2>>}
         \cup (IF "transcript_id" \in DOMAIN h.record.attributes
               THEN {<<h.record.attributes["gene_id"][1],
                       h.record.attributes["transcript_id"][1], 1>>}
               ELSE {})
    ELSE {}

SubfeatureChildren(T) ==
    {i \in 1..Len(features) : /\ features[i].featuretype = "exon"
                              /\ <<T, features[i].id, 1>> \in relations}

Max(S) == CHOOSE x \in S : \A y \in S : x >= y

\* C19: in the GTF driver, once pass 2 has run, every id T that is the level-1
\* parent of a stored subfeature record has a transcript record with id T,
\* featuretype 'transcript', source 'gffutils_derived', start the least start
\* and end the greatest end of T's subfeature children, and attributes
\* {transcript_key: [T], gene_key: [G]}.
C19_TranscriptPerSubfeatureParent ==
    (driver = "gtf" /\ pc \in {"finalize", "done"}) =>
        \A T \in {r[1] : r \in {e \in Level1(relations) : SubfeatureChildren(e[1]) # {}}} :
            \E i \in 1..Len(features) :
                /\ features[i].id = T
                /\ features[i].featuretype = "transcript"
                /\ features[i].source = "gffutils_derived"
                /\ features[i].start = Min({features[j].start : j \in SubfeatureChildren(T)})
                /\ features[i].end = Max({features[j].end : j \in SubfeatureChildren(T)})
                /\ \E G \in RelationIds :
                      features[i].attributes = ("transcript_id" :> <<T>>) @@ ("gene_id" :> <<G>>)

\* the gene ids among the (transcript, gene) pairs: level-1 parents of an id
\* that is the level-1 parent of a stored subfeature record
PairGenes ==
    {e[1] : e \in {r \in Level1(relations) : SubfeatureChildren(r[2]) # {}}}

\* the stored subfeature records that descend from G: through one of its
\* transcripts, or by a level-2 edge
SubfeatureDescendants(G) ==
    {i \in 1..Len(features) :
        /\ features[i].featuretype = "exon"
        /\ \/ <<G, features[i].id, 2>> \in relations
           \/ \E T \in RelationIds : /\ <<G, T, 1>> \in relations
                                      /\ <<T, features[i].id, 1>> \in relations}

\* C20: once pass 2 of the GTF driver has run, every gene id G among the
\* (transcript, gene) pairs has exactly one gene record, with featuretype
\* 'gene', attributes {gene_key: [G]}, start the least start and end the
\* greatest end of the subfeature records that descend from G.
C20_OneGenePerGeneId ==
    (driver = "gtf" /\ pc \in {"finalize", "done"}) =>
        \A G \in PairGenes :
            LET rows == {i \in 1..Len(features) :
                            /\ features[i].featuretype = "gene"
                            /\ features[i].attributes = ("gene_id" :> <<G>>)}
            IN /\ Cardinality(rows) = 1
               /\ \A i \in rows :
                     /\ features[i].id = G
                     /\ features[i].start =
                           Min({features[j].start : j \in SubfeatureDescendants(G)})
                     /\ features[i].end =
                           Max({features[j].end : j \in SubfeatureDescendants(G)})

\* the running (or last) call was given an empty input: pass 1 is over and no
\* record was read
EmptyInput == current_item_number = 0 /\ pc # "pass1"

\* C21: an update (or ingestion) whose input is empty is a silent no-op in both
\* drivers, verbose or not: no error is raised and features, relations and the
\* counters are what they were when the call began.
C21_EmptyInputIsNoOp ==
    EmptyInput =>
        /\ error.type = "none"
        /\ features = snapshot.features
        /\ relations = snapshot.relations
        /\ autoincrements = snapshot.autoincrements

\* C22: once create_db has opened a destination that existed, either force was
\* off, the call has raised and the store is as it was, or force was on and no
\* row of the prior store is left.
Opened == pc \notin {"init", "tables"}

C22_ForceOffRaisesForceOnDeletes ==
    (Opened /\ dest # "absent") =>
        IF force
        THEN \A i \in 1..Len(features) : features[i].id # "old"
        ELSE /\ pc = "failed"
             /\ error.type # "none"
             /\ features = snapshot.features

\* C23: what write_gene_recs has written is the gene record, then one block per
\* mRNA child of the gene, the blocks in non-increasing order of total exon
\* length, then the gene's level-1 children that are not mRNAs. A block is the
\* mRNA record, its exons in ascending start order, each exon directly followed
\* by that exon's children, and then the mRNA's children that are not exons.
TypeOf(id) == Get(features, id).featuretype

IsOrderOf(seq, S) == Len(seq) = Cardinality(S) /\ Range(seq) = S

ExonPart(part, m) ==
    LET exons == children(features, relations, m, AnyLevel, "exon")
        heads == {q \in 1..Len(part) : TypeOf(part[q]) = "exon"}
    IN /\ {part[q] : q \in heads} = exons
       /\ Cardinality(heads) = Cardinality(exons)
       /\ part # <<>> => 1 \in heads
       /\ \A q, r \in heads :
             q < r => Get(features, part[q]).start <= Get(features, part[r]).start
       /\ \A q \in heads :
             LET last == Min({r \in heads : r > q} \cup {Len(part) + 1}) - 1
             IN IsOrderOf(SubSeq(part, q + 1, last),
                          children(features, relations, part[q], AnyLevel, None))

Block(seg, m) ==
    \E k \in 0..Len(seg) :
        /\ ExonPart(SubSeq(seg, 1, k), m)
        /\ IsOrderOf(SubSeq(seg, k + 1, Len(seg)),
                     {c \in children(features, relations, m, AnyLevel, None) :
                         TypeOf(c) # "exon"})

CanonicalOrder(o) ==
    LET mRNAs == children(features, relations, gene_id, AnyLevel, "mRNA")
        heads == {i \in 1..Len(o) : TypeOf(o[i]) = "mRNA"}
    IN /\ o # <<>>
       /\ o[1] = gene_id
       /\ {o[i] : i \in heads} = mRNAs
       /\ Cardinality(heads) = Cardinality(mRNAs)
       /\ \A i, j \in heads :
             i < j => mRNA_lens(features, relations, o[i]) >= mRNA_lens(features, relations, o[j])
       /\ \E t \in 1..Len(o) :
             /\ IsOrderOf(SubSeq(o, t + 1, Len(o)),
                          {c \in children(features, relations, gene_id, {1}, None) :
                              TypeOf(c) # "mRNA"})
             /\ heads \subseteq 2..t
             /\ IF heads = {} THEN t = 1 ELSE 2 \in heads
             /\ \A i \in heads :
                   LET last == Min({j \in heads : j > i} \cup {t + 1}) - 1
                   IN Block(SubSeq(o, i + 1, last), o[i])

C24_DerivedHandledAsMerge ==
    [][(pc = "pass2_insert" /\ scratch # <<>> /\ scratch' = Tail(scratch)) =>
          LET h == _id_handler(Head(scratch), id_spec, autoincrements)
              f == [h.f EXCEPT !.id = h.id]
          IN h.raised = "none" =>
                \E res \in InsertDerived(f, features, h.ai, "merge", current_item_number) :
                    /\ features' = res.features
                    /\ autoincrements' = res.ai
                    /\ error' = IF res.raised.type # "none" THEN res.raised ELSE error]_vars

\* C25: when a derived record of GTF pass 2 has the id of a record read from the
\* input, the turn of the replay loop raises nothing, adds no row, and leaves
\* every field of every stored row but the attributes as it was; an attribute
\* list keeps all its values.
CollidesWithInput(id) ==
    \E i \in 1..Len(features) :
        features[i].id = id /\ features[i].source # "gffutils_derived"

OnlyAttributesGain(before, after) ==
    /\ Len(after) = Len(before)
    /\ \A i \in 1..Len(before) :
          /\ after[i].id = before[i].id
          /\ \A k \in Range(gffkeys_but_attributes) : after[i][k] = before[i][k]
          /\ \A k \in DOMAIN before[i].attributes :
                Range(before[i].attributes[k]) \subseteq Range(AttrGet(after[i].attributes, k))

C25_InputRecordKeptByPass2 ==
    [][(pc = "pass2_insert" /\ scratch # <<>> /\ scratch' = Tail(scratch)) =>
          LET h == _id_handler(Head(scratch), id_spec, autoincrements)
          IN (h.raised = "none" /\ CollidesWithInput(h.id)) =>
                /\ error'.type = "none"
                /\ OnlyAttributesGain(features, features')]_vars

\* C26: once pass 2 of a GTF create has run, a derived transcript whose
\* subfeature children disagree on strand or seqid has the strand and seqid of
\* the child that was read first, and a warning has been recorded.
Disagree(rows) ==
    \E i, j \in rows : \/ features[i].strand # features[j].strand
                       \/ features[i].seqid # features[j].seqid

C26_FirstSeenWinsWithWarning ==
    (driver = "gtf" /\ mode = "create" /\ pc \in {"finalize", "done"}) =>
        \A t \in 1..Len(features) :
            LET rows == SubfeatureRows(features, relations, features[t].id)
            IN (features[t].source = "gffutils_derived"
                /\ features[t].featuretype = "transcript"
                /\ Disagree(rows)) =>
                  /\ warnings # <<>>
                  /\ features[t].strand = features[Min(rows)].strand
                  /\ features[t].seqid = features[Min(rows)].seqid

\* C27: whenever a create or update call has returned, normally or by raising,
\* and the meta row is there, the counters in the autoincrements table equal
\* those in memory and pass 2 has covered every stored record (every two-step
\* chain below a stored GFF feature has its level-2 row; every transcript and
\* gene of a GTF (transcript, gene) pair is stored); and a create that has
\* raised has left no meta row.
Returned == pc \in {"done", "failed"}

Pass2Complete ==
    IF driver = "gff"
    THEN \A p \in Ids(features) : \A g \in RelationIds :
            TwoStepChain(p, g) => <<p, g, 2>> \in relations
    ELSE \A pair \in TranscriptGenePairs(features, relations) :
            pair[1] \in Ids(features) /\ pair[2] \in Ids(features)

C27_MetaRowMeansConsistent ==
    /\ (Returned /\ meta > 0) => (PersistedEqualsMemory /\ Pass2Complete)
    /\ (mode = "create" /\ pc = "failed") => meta = 0

\* C28: when pass 2 of either driver has returned, normally or by raising, no
\* scratch file the ingestion made is on disk.
C28_ScratchFilesRemoved == pc \in {"finalize", "done", "failed"} => files = {}

\* C29: of two GTF creators that run pass 2 at the same time on different
\* stores, neither fails, and each replays exactly the derived records it wrote.
C29_ScratchIsPrivate ==
    \A c \in DOMAIN peers :
        /\ peers[c].pc # "failed"
        /\ peers[c].pc \in {"replayed", "done"} => peers[c].replayed = peers[c].own

\* C30: what the creator has ingested is always a prefix of the input's data
\* records, and all of them once the input is exhausted, for a list and for a
\* one-shot generator, whatever checklines is.
IsPrefix(s, t) == Len(s) <= Len(t) /\ s = SubSeq(t, 1, Len(s))

C30_SniffingLosesNothing ==
    sniff.pc \in {"create", "read"} =>
        /\ IsPrefix(sniff.ingested, sniff.input)
        /\ sniff.pc = "read" => sniff.ingested = sniff.input

\* a generator of more records than were sniffed has been read to its end
C30_Witness ==
    /\ sniff.pc = "read"
    /\ sniff.oneshot
    /\ Len(sniff.peeked) >= 1
    /\ Len(sniff.input) > Len(sniff.peeked)
    /\ sniff.ingested = sniff.input

\* C31: in a store that create or update has finished, no id is reached from
\* itself along edges of relations, of whatever level; in particular no edge
\* has its parent as its child.
RECURSIVE ReachFrom(_, _)
ReachFrom(S, n) ==
    IF n = 0 THEN S
    ELSE ReachFrom(S \cup {r[2] : r \in {e \in relations : e[1] \in S}}, n - 1)

Descendants(x) ==
    ReachFrom({r[2] : r \in {e \in relations : e[1] = x}}, Cardinality(RelationIds))

C31_RelationsAcyclic ==
    pc \in {"finalize", "done"} => \A x \in RelationIds : x \notin Descendants(x)

\* C32: when pass 1 of the GFF driver has ended, the level-1 rows of relations
\* are exactly the rows (p, c, 1) with c the id of a stored feature and p a
\* value of the Parent attribute of that stored feature.
ParentEdges(feats) ==
    UNION {{<<p, feats[i].id, 1>> : p \in Range(AttrGet(feats[i].attributes, "Parent"))} :
              i \in 1..Len(feats)}

C32_Level1AgreesWithStoredParents ==
    (driver = "gff" /\ pc = "pass2") => Level1(relations) = ParentEdges(features)

\* C33: after a create of the GFF driver whose records carry pairwise different
\* explicit IDs, the stored features and the relations of both levels are
\* determined by the set of records read, whatever the order they were read in:
\* the features are the records, each under its ID; the level-1 rows are the
\* (Parent value, ID) pairs; the level-2 rows join two level-1 rows below a
\* stored feature.
RecordsRead == {[history[i].record EXCEPT !.id = history[i].resolved] : i \in 1..Len(history)}

DistinctExplicitIds ==
    /\ \A i \in 1..Len(history) :
          /\ history[i].outcome = "inserted"
          /\ AttrGet(history[i].record.attributes, "ID") = <<history[i].resolved>>
    /\ \A i, j \in 1..Len(history) : history[i].resolved = history[j].resolved => i = j

RelationsOfSet(S) ==
    LET level1 == UNION {{<<p, f.id, 1>> : p \in Range(AttrGet(f.attributes, "Parent"))} :
                            f \in S}
        joined == {pr \in level1 \X level1 :
                      pr[1][2] = pr[2][1] /\ \E f \in S : f.id = pr[1][1]}
    IN level1 \cup {<<pr[1][1], pr[2][2], 2>> : pr \in joined}

C33_OrderOfLinesIsIrrelevant ==
    (driver = "gff" /\ mode = "create" /\ pc = "done" /\ DistinctExplicitIds) =>
        /\ Range(features) = RecordsRead
        /\ relations = RelationsOfSet(RecordsRead)

\* the exon was read before its parent and the parent before the gene
C33_Witness ==
    /\ driver = "gff" /\ mode = "create" /\ pc = "done" /\ DistinctExplicitIds
    /\ Len(history) = 3
    /\ history[1].resolved = "e" /\ history[2].resolved = "t" /\ history[3].resolved = "g"
    /\ <<"g", "e", 2>> \in relations

\* C34: once pass 2 of the GTF driver has run, a derived gene record spans every
\* derived transcript record that names it as its gene: the gene starts no
\* later and ends no earlier than the transcript.
IsDerived(f, featuretype) == f.source = "gffutils_derived" /\ f.featuretype = featuretype

C34_GeneExtentContainsTranscript ==
    (driver = "gtf" /\ pc \in {"finalize", "done"}) =>
        \A t, g \in 1..Len(features) :
            (/\ IsDerived(features[t], "transcript")
             /\ IsDerived(features[g], "gene")
             /\ AttrGet(features[t].attributes, gene_key) = <<features[g].id>>) =>
                /\ features[g].start <= features[t].start
                /\ features[t].end <= features[g].end

====
